---- MODULE Spec2Model ----
(***************************************************************************)
(* The App component of src/client/components/App.jsx as a state machine.  *)
(*                                                                         *)
(* React state (useState) and refs (useRef) are the variables.  A handler  *)
(* runs to completion.  After the handler of a click or a key event that   *)
(* changed state React renders before the event is over: the handler, the  *)
(* render and the effects whose dependencies changed (RunEffects) are one  *)
(* step.  After any other callback (the continuation of an await, a        *)
(* data-channel listener, a timeout) the render is a step of its own       *)
(* (Render): until then the values the callback gave to isSessionActive    *)
(* and dataChannel wait in pending, and a handler that runs sees the state *)
(* of the last render.  The effects of such a render are one more step     *)
(* (Effects): until then the listeners and the timers are those of the     *)
(* render whose effects ran last (effected).  Callbacks that outlive a     *)
(* render keep the values they closed over: the auto-stop timer, the       *)
(* data-channel listeners, the key handlers, the 100 ms dispatch and a     *)
(* suspended startSession.                                                 *)
(*                                                                         *)
(* The browser runs one callback at a time and in any order: a render or   *)
(* the effects of one that wait may be overtaken by a click, a key event,  *)
(* a data-channel event, a timeout or the continuation of an await.        *)
(*                                                                         *)
(* startSession, stopSession, sendClientEvent, sendTextMessage,            *)
(* startRecording and stopRecording are handed to child components as      *)
(* props (lines 458-469, 559-564); App itself puts no guard on when they   *)
(* are called, so they are callable in every state.  The guards the JSX of *)
(* App does show (the disabled attributes of the mode checkbox and of the  *)
(* threshold controls, the condition on the resend button) are modelled.   *)
(*                                                                         *)
(* Thresholds are in hundredths: 70 is 0.7.                                *)
(*                                                                         *)
(* The PerformanceMonitor of src/client/utils/performance.js is a second   *)
(* machine over its own variables; App does not use it.  Times are whole   *)
(* milliseconds and memory sizes whole megabytes.                          *)
(***************************************************************************)
EXTENDS Integers, Sequences, FiniteSets, TLC

\* ------------------------------------------------------------- bounds
\* startSession invocations over a run; each creates its own peer connection,
\* media stream and data channel, named by the invocation's number.
MaxSessions == 2
\* Operations started from outside over a run: every call of a handler by
\* the user, a child component or the remote peer, except startSession,
\* stopSession, the stopRecording that ends a recording and the key events
\* that reach the handlers while a recording is in progress.
MaxInputs == 2
\* Calls made on the PerformanceMonitor over a run, the samples of its
\* memory monitoring included.
MaxCalls == 5
\* The largest value of performance.now().
MaxNow == 4

Sessions == 1 .. MaxSessions
\* null
NULL == 0

\* ------------------------------------------------ configuration (lines 22-28)
\* parseFloat of a variable that is not set is NaN.
NaN == -999
pushToTalkTimeLimit == 5000
\* parseFloat(raw) || fallback: NaN and 0 are falsy.
EnvFloat(raw, fallback) == IF raw = NaN \/ raw = 0 THEN fallback ELSE raw

\* The raw values of VITE_VAD_THRESHOLD_DEFAULT, _MIN and _MAX, in hundredths.
EnvDefaults == {NaN, 0, 30, 80, 150}
EnvMins == {NaN, 0, 20, 90}
EnvMaxs == {NaN, 0, 60, 100}
AllEnvs == [def : EnvDefaults, min : EnvMins, max : EnvMaxs]
\* The configurations the session machine is explored under.
MainEnvs == {[def |-> 70, min |-> NaN, max |-> NaN]}

\* What the slider, the preset buttons or a caller hand to
\* validateAndSetVadThreshold.
ThresholdInputs == {30, 120}

KeyCodes == {"Space", "KeyA"}

\* What the user types.
Texts == {"hello", "bye"}

\* What a child component hands to the sendClientEvent prop.
ClientEvents == {[type |-> "response.create"],
                 [type |-> "response.cancel"]}

VARIABLES
    \* useState
    isSessionActive, events, dataChannel, isPushToTalkEnabled, isRecording,
    vadThreshold,
    \* useRef
    peerConnection, localStream, spaceKeyTimer, isRecordingRef,
    \* configuration read at render
    vadThresholdDefault, vadThresholdMin, vadThresholdMax,
    \* the browser: timers, and per startSession invocation its position,
    \* the mode it closed over, its data channel and its audio track
    autoStop, vadTimers, stage, capturedPtt, readyState, listeners,
    trackEnabled, trackEnded,
    \* observation of the last step: the operation, the messages it put on a
    \* data channel, whether a send threw, what start/stopRecording did
    \* and whether stopSession interrupted a recording
    last, out, threw, res,
    \* the values isSessionActive and dataChannel take at the next render,
    \* and the values they had in the render whose effects ran last
    pending, effected,
    \* history: Idle -> Recording transitions, "response.create" messages
    \* sent by stopRecording, the data channel that opened last, and
    \* whether stopSession ran with no startSession invoked since
    nStartRec, nRespCreate, lastOpened, stopped, inputs

appVars == <<isSessionActive, events, dataChannel, isPushToTalkEnabled,
          isRecording, vadThreshold, peerConnection, localStream,
          spaceKeyTimer, isRecordingRef, vadThresholdDefault,
          vadThresholdMin, vadThresholdMax, autoStop, vadTimers, stage,
          capturedPtt, readyState, listeners, trackEnabled, trackEnded,
          last, out, threw, res, nStartRec, nRespCreate, lastOpened,
          stopped, pending, effected, inputs>>

VARIABLES
    \* PerformanceMonitor: this.metrics and this.startTime
    metrics, startTime,
    \* the host: performance.now(), the latest mark of each name, the
    \* durations of the "vad-latency" measures in the performance timeline,
    \* whether performance.memory exists, the callbacks that
    \* measureVADResponse returned and that were not called yet, and the
    \* timeouts of startMemoryMonitoring that are pending
    now, marks, vadMeasures, hasMemory, vadCallbacks, memoryTimers,
    \* observation of the last call: the method, what it returned, whether
    \* it threw, and the last summary
    pmLast, pmRes, pmThrew, stats,
    \* history: a latency window was started and not ended since; calls made
    windowOpen, calls

perfVars == <<metrics, startTime, now, marks, vadMeasures, hasMemory,
              vadCallbacks, memoryTimers, pmLast, pmRes, pmThrew, stats,
              windowOpen, calls>>

vars == <<appVars, perfVars>>

\* The state as one record, so that a handler is a function from state to
\* state and handlers compose the way the calls in the source do.
S == [isSessionActive |-> isSessionActive, events |-> events,
      dataChannel |-> dataChannel,
      isPushToTalkEnabled |-> isPushToTalkEnabled,
      isRecording |-> isRecording, vadThreshold |-> vadThreshold,
      peerConnection |-> peerConnection, localStream |-> localStream,
      spaceKeyTimer |-> spaceKeyTimer, isRecordingRef |-> isRecordingRef,
      autoStop |-> autoStop, vadTimers |-> vadTimers, stage |-> stage,
      capturedPtt |-> capturedPtt, readyState |-> readyState,
      listeners |-> listeners, trackEnabled |-> trackEnabled,
      trackEnded |-> trackEnded, out |-> <<>>, threw |-> FALSE,
      res |-> "none", nStartRec |-> nStartRec, nRespCreate |-> nRespCreate,
      lastOpened |-> lastOpened, stopped |-> stopped]

Apply(s) ==
    /\ isSessionActive' = s.isSessionActive
    /\ events' = s.events
    /\ dataChannel' = s.dataChannel
    /\ isPushToTalkEnabled' = s.isPushToTalkEnabled
    /\ isRecording' = s.isRecording
    /\ vadThreshold' = s.vadThreshold
    /\ peerConnection' = s.peerConnection
    /\ localStream' = s.localStream
    /\ spaceKeyTimer' = s.spaceKeyTimer
    /\ isRecordingRef' = s.isRecordingRef
    /\ autoStop' = s.autoStop
    /\ vadTimers' = s.vadTimers
    /\ stage' = s.stage
    /\ capturedPtt' = s.capturedPtt
    /\ readyState' = s.readyState
    /\ listeners' = s.listeners
    /\ trackEnabled' = s.trackEnabled
    /\ trackEnded' = s.trackEnded
    /\ out' = s.out
    /\ threw' = s.threw
    /\ res' = s.res
    /\ nStartRec' = s.nStartRec
    /\ nRespCreate' = s.nRespCreate
    /\ lastOpened' = s.lastOpened
    /\ stopped' = s.stopped
    /\ UNCHANGED <<vadThresholdDefault, vadThresholdMin, vadThresholdMax>>
    /\ UNCHANGED perfVars

\* No auto-stop timer is pending.
NoTimer == [pending |-> FALSE, dc |-> NULL, delay |-> 0]

\* ------------------------------------------------------------ messages
ResponseCreate == [type |-> "response.create"]
\* silence_duration_ms with the comparison made inclusive.
silenceDurationMs_Inclusive(t) == IF t >= 70 THEN 1000 ELSE 500
silenceDurationMs(t) == IF t > 70 THEN 1000 ELSE 500
VadEvent(t) ==
    [type |-> "session.update", threshold |-> t,
     silence_duration_ms |-> silenceDurationMs(t)]
ItemCreate(text) == [type |-> "conversation.item.create", text |-> text]
\* The n-th inbound message of a run, received on data channel i.
ServerEvent(i, n) == [type |-> "server.event", n |-> n, dc |-> i]

\* ------------------------------------------------------------ handlers
\* sendClientEvent as created by a render whose dataChannel was dc.
\* RTCDataChannel.send throws unless the channel is open, and the handler
\* does not catch: the log is then left alone.
sendClientEvent(s, dc, message) ==
    IF dc # NULL
    THEN IF s.readyState[dc] = "open"
         THEN [s EXCEPT !.out = Append(@, [dc |-> dc, msg |-> message]),
                        !.events = <<message>> \o @]
         ELSE [s EXCEPT !.threw = TRUE]
    ELSE s

toggleMicrophone(s, enabled) ==
    IF s.localStream # NULL
    THEN [s EXCEPT !.trackEnabled[s.localStream] = enabled]
    ELSE s

\* updateVADSettings as created by a render with these three values.
updateVADSettings(s, dc, threshold, ptt) ==
    IF dc # NULL /\ s.readyState[dc] = "open" /\ ~ptt
    THEN sendClientEvent(s, dc, VadEvent(threshold))
    ELSE s

\* stopRecording without its early return.
stopRecording_NoGuard(s, dc) ==
    LET s1 == IF s.spaceKeyTimer
              THEN [s EXCEPT !.spaceKeyTimer = FALSE, !.autoStop = NoTimer]
              ELSE s
        s2 == [s1 EXCEPT !.isRecordingRef = FALSE,
                         !.isRecording = FALSE,
                         !.res = "stopped"]
        s3 == toggleMicrophone(s2, FALSE)
        s4 == sendClientEvent(s3, dc, ResponseCreate)
    IN  [s4 EXCEPT !.nRespCreate = @ + (Len(s4.out) - Len(s3.out))]

\* stopRecording whose sendClientEvent closed over dc.
stopRecording(s, dc) ==
    IF ~s.isRecordingRef
    THEN [s EXCEPT !.res = "noop"]
    ELSE LET s1 == IF s.spaceKeyTimer
                   THEN [s EXCEPT !.spaceKeyTimer = FALSE,
                                  !.autoStop = NoTimer]
                   ELSE s
             s2 == [s1 EXCEPT !.isRecordingRef = FALSE,
                              !.isRecording = FALSE,
                              !.res = "stopped"]
             s3 == toggleMicrophone(s2, FALSE)
             s4 == sendClientEvent(s3, dc, ResponseCreate)
         IN  [s4 EXCEPT !.nRespCreate = @ + (Len(s4.out) - Len(s3.out))]

\* startRecording that does not look at isSessionActive.
startRecording_NoSessionCheck(s, active, dc) ==
    IF dc = NULL \/ s.isRecordingRef
    THEN [s EXCEPT !.res = "rejected"]
    ELSE LET s1 == [s EXCEPT !.isRecordingRef = TRUE,
                             !.isRecording = TRUE,
                             !.res = "started",
                             !.nStartRec = @ + 1]
             s2 == toggleMicrophone(s1, TRUE)
         IN  [s2 EXCEPT !.spaceKeyTimer = TRUE,
                        !.autoStop = [pending |-> TRUE, dc |-> dc,
                                      delay |-> pushToTalkTimeLimit]]

\* startRecording as created by a render with these values of
\* isSessionActive and dataChannel.
startRecording(s, active, dc) ==
    IF ~active \/ dc = NULL \/ s.isRecordingRef
    THEN [s EXCEPT !.res = "rejected"]
    ELSE LET s1 == [s EXCEPT !.isRecordingRef = TRUE,
                             !.isRecording = TRUE,
                             !.res = "started",
                             !.nStartRec = @ + 1]
             s2 == toggleMicrophone(s1, TRUE)
         IN  [s2 EXCEPT !.spaceKeyTimer = TRUE,
                        !.autoStop = [pending |-> TRUE, dc |-> dc,
                                      delay |-> pushToTalkTimeLimit]]

\* ------------------------------------------------------------- effects
\* The effects of a render: the cleanups and then the bodies of the
\* effects whose dependencies differ between the render whose effects ran
\* last (old) and this one (new), in the order the component declares them.
KeyboardCleanup(old, new) ==
    IF /\ \/ old.isPushToTalkEnabled # new.isPushToTalkEnabled
          \/ old.isSessionActive # new.isSessionActive
          \/ old.dataChannel # new.dataChannel
       /\ old.isPushToTalkEnabled /\ old.isSessionActive
       /\ new.spaceKeyTimer
    THEN [new EXCEPT !.spaceKeyTimer = FALSE, !.autoStop = NoTimer]
    ELSE new

DataChannelEffect(old, new) ==
    IF /\ \/ old.dataChannel # new.dataChannel
          \/ old.vadThreshold # new.vadThreshold
          \/ old.isPushToTalkEnabled # new.isPushToTalkEnabled
       /\ new.dataChannel # NULL
    THEN [new EXCEPT !.listeners[new.dataChannel] =
              Append(@, [threshold |-> new.vadThreshold,
                         ptt |-> new.isPushToTalkEnabled])]
    ELSE new

VadEffect(old, new) ==
    IF /\ \/ old.vadThreshold # new.vadThreshold
          \/ old.isSessionActive # new.isSessionActive
          \/ old.dataChannel # new.dataChannel
          \/ old.isPushToTalkEnabled # new.isPushToTalkEnabled
       /\ new.isSessionActive
    THEN updateVADSettings(new, new.dataChannel, new.vadThreshold,
                           new.isPushToTalkEnabled)
    ELSE new

RunEffects(old, new) ==
    VadEffect(old, DataChannelEffect(old, KeyboardCleanup(old, new)))

\* --------------------------------------------------------------- Init
InitWith(envs) ==
    /\ \E e \in envs :
          /\ vadThresholdDefault = EnvFloat(e.def, 50)
          /\ vadThresholdMin = EnvFloat(e.min, 0)
          /\ vadThresholdMax = EnvFloat(e.max, 100)
    /\ vadThreshold = vadThresholdDefault
    /\ isSessionActive = FALSE
    /\ events = <<>>
    /\ dataChannel = NULL
    /\ isPushToTalkEnabled = FALSE
    /\ isRecording = FALSE
    /\ peerConnection = NULL
    /\ localStream = NULL
    /\ spaceKeyTimer = FALSE
    /\ isRecordingRef = FALSE
    /\ autoStop = NoTimer
    /\ vadTimers = <<>>
    /\ stage = [i \in Sessions |-> "idle"]
    /\ capturedPtt = [i \in Sessions |-> FALSE]
    /\ readyState = [i \in Sessions |-> "none"]
    /\ listeners = [i \in Sessions |-> <<>>]
    /\ trackEnabled = [i \in Sessions |-> FALSE]
    /\ trackEnded = [i \in Sessions |-> FALSE]
    /\ last = "mount"
    /\ out = <<>>
    /\ threw = FALSE
    /\ res = "none"
    /\ nStartRec = 0
    /\ nRespCreate = 0
    /\ lastOpened = NULL
    /\ stopped = FALSE
    /\ pending = [isSessionActive |-> FALSE, dataChannel |-> NULL]
    /\ effected = [isSessionActive |-> FALSE, dataChannel |-> NULL]
    /\ inputs = 0

\* The initial state of the monitor (constructor, lines 3-11) on a host
\* where performance.memory exists or not.
MetricKeys == {"audioLatency", "memoryUsage", "connectionTime",
               "vadResponseTime"}
NoMetrics == [key \in MetricKeys |-> <<>>]
MarkNames == {"audio-start", "audio-end", "vad-trigger", "vad-response"}
NoMarks == [name \in MarkNames |-> NULL]
\* A call returned null or undefined.
Null == [null |-> TRUE, value |-> 0]
Value(v) == [null |-> FALSE, value |-> v]

InitPerf(hosts) ==
    /\ metrics = NoMetrics
    /\ startTime = NULL
    /\ now = 1
    /\ marks = NoMarks
    /\ vadMeasures = <<>>
    /\ hasMemory \in hosts
    /\ vadCallbacks = 0
    /\ memoryTimers = <<>>
    /\ pmLast = "constructor"
    /\ pmRes = Null
    /\ pmThrew = FALSE
    /\ stats = [key \in {} |-> NULL]
    /\ windowOpen = FALSE
    /\ calls = 0

Init == InitWith(MainEnvs) /\ InitPerf({TRUE})

\* ------------------------------------------------------------ actions
\* The two state variables a callback outside a click or a key event
\* writes, as a record.
Rendered(s) ==
    [isSessionActive |-> s.isSessionActive, dataChannel |-> s.dataChannel]

\* The state with the updates that wait for a render applied.
Q == [S EXCEPT !.isSessionActive = pending.isSessionActive,
               !.dataChannel = pending.dataChannel]

\* The render whose effects ran last: its key handlers are the ones
\* attached, and its values are what the next effects compare with.
E == [S EXCEPT !.isSessionActive = effected.isSessionActive,
               !.dataChannel = effected.dataChannel]

\* s with the state of render r.
At(s, r) ==
    [s EXCEPT !.isSessionActive = r.isSessionActive,
              !.dataChannel = r.dataChannel,
              !.vadThreshold = r.vadThreshold,
              !.isPushToTalkEnabled = r.isPushToTalkEnabled]

\* A callback that React does not render after at once: the continuation
\* of an await, a data-channel listener, a timeout.  It turns Q into s; what
\* it gives to isSessionActive and dataChannel waits for Render.
Step(op, s) ==
    /\ Apply([s EXCEPT !.isSessionActive = isSessionActive,
                       !.dataChannel = dataChannel])
    /\ last' = op
    /\ pending' = Rendered(s)
    /\ UNCHANGED effected

\* Whether React renders before a click or a key event is over whose handler
\* turned S into s.  A setter called with another value always makes it
\* render.  A setter called with the value the state already has is dropped
\* only when no work is left on the component; when an update waits from a
\* Step, or effects still wait from the last commit, the call is queued and
\* React renders in the event, running the waiting effects first.  set:
\* the handler calls a setter whatever S is; the setters the other handlers
\* call always change the state.  all: the handler sets isSessionActive
\* and dataChannel.
Renders(s, all, set) ==
    \/ s.events # events
    \/ s.isRecording # isRecording
    \/ s.vadThreshold # vadThreshold
    \/ s.isPushToTalkEnabled # isPushToTalkEnabled
    \/ Rendered(s) # Rendered(S)
    \/ (all \/ set) /\ pending # Rendered(S)
    \/ set /\ effected # Rendered(S)

\* A handler of a click or a key event that turns S into s.  If React
\* renders before the event is over, the effects that still wait run first,
\* in the render they belong to, then the render that takes the updates of
\* the handler and its effects.  Of the updates that wait from a Step, a
\* handler that sets isSessionActive and dataChannel itself (all) overrides
\* them; otherwise they keep waiting.
Sync(op, s, all, set) ==
    /\ last' = op
    /\ IF Renders(s, all, set)
       THEN LET f == RunEffects(E, At(s, S))
                c == RunEffects(S, At(f, s))
            IN  /\ Apply(c)
                /\ effected' = Rendered(c)
                /\ pending' = IF all THEN Rendered(c) ELSE pending
       ELSE /\ Apply(s)
            /\ UNCHANGED <<pending, effected>>

\* startSession up to its first await.  Nothing the component holds changes
\* between the awaits of the token fetch, its JSON and getUserMedia, so the
\* three are one suspension.
StartSession ==
    \E i \in Sessions :
       /\ stage[i] = "idle"
       /\ \A j \in Sessions : j < i => stage[j] # "idle"
       /\ Step("startSession",
               [Q EXCEPT !.stage[i] = "acquiring",
                         !.capturedPtt[i] = isPushToTalkEnabled,
                         !.stopped = FALSE])
       /\ UNCHANGED inputs

\* getUserMedia resolves: lines 280-295, then the offer/answer exchange is
\* awaited.  A new track is enabled; the mode read is the one the invocation
\* closed over.
MediaDone ==
    \E i \in Sessions :
       /\ stage[i] = "acquiring"
       /\ LET s1 == [Q EXCEPT !.stage[i] = "negotiating",
                              !.localStream = i,
                              !.trackEnabled[i] = ~capturedPtt[i],
                              !.readyState[i] = "connecting",
                              !.dataChannel = i]
          IN  Step("mediaDone", s1)
       /\ UNCHANGED inputs

\* setRemoteDescription resolves: line 318.
NegotiationDone ==
    \E i \in Sessions :
       /\ stage[i] = "negotiating"
       /\ Step("negotiationDone",
               [Q EXCEPT !.stage[i] = "done", !.peerConnection = i])
       /\ UNCHANGED inputs

\* One "open" listener of a data channel, attached with closure c.
OpenListener(s, i, c) ==
    [s EXCEPT !.isSessionActive = TRUE,
              !.events = <<>>,
              !.lastOpened = i,
              !.vadTimers = Append(@, [dc |-> i, threshold |-> c.threshold,
                                       ptt |-> c.ptt])]

RECURSIVE RunOpenListeners(_, _, _)
RunOpenListeners(s, i, ls) ==
    IF ls = <<>> THEN s
    ELSE RunOpenListeners(OpenListener(s, i, Head(ls)), i, Tail(ls))

\* The browser opens data channel i once the connection is negotiated, and
\* calls every "open" listener attached to it.
DataChannelOpen ==
    \E i \in Sessions :
       /\ stage[i] = "done"
       /\ readyState[i] = "connecting"
       /\ LET s0 == [Q EXCEPT !.readyState[i] = "open"]
              s1 == RunOpenListeners(s0, i, listeners[i])
          IN  Step("open", s1)
       /\ UNCHANGED inputs

\* One "message" listener of a data channel.
MessageListener(s, i, n) ==
    [s EXCEPT !.events = <<ServerEvent(i, n)>> \o @]

RECURSIVE RunMessageListeners(_, _, _, _)
RunMessageListeners(s, i, n, k) ==
    IF k = 0 THEN s
    ELSE RunMessageListeners(MessageListener(s, i, n), i, n, k - 1)

\* The remote peer sends its inputs-th message on open data channel i; the
\* browser calls every "message" listener attached to it.
DataChannelMessage ==
    \E i \in Sessions :
       /\ inputs < MaxInputs
       /\ readyState[i] = "open"
       /\ Step("message",
               RunMessageListeners(Q, i, inputs + 1, Len(listeners[i])))
       /\ inputs' = inputs + 1

\* The remote peer or the network closes open data channel i.  The
\* component listens for "open" and "message" only, so nothing it holds
\* changes.
DataChannelClose ==
    \E i \in Sessions :
       /\ inputs < MaxInputs
       /\ readyState[i] = "open"
       /\ Step("close", [Q EXCEPT !.readyState[i] = "closed"])
       /\ inputs' = inputs + 1

\* stopSession that leaves isRecordingRef as it is.
stopSession_KeepsRecording(s) ==
    LET s1 == IF s.spaceKeyTimer
              THEN [s EXCEPT !.spaceKeyTimer = FALSE, !.autoStop = NoTimer]
              ELSE s
        s2 == [s1 EXCEPT !.isRecording = FALSE]
        s3 == IF s2.dataChannel # NULL
              THEN [s2 EXCEPT !.readyState[s2.dataChannel] = "closed"]
              ELSE s2
        s4 == IF s3.localStream # NULL
              THEN [s3 EXCEPT !.trackEnded[s3.localStream] = TRUE,
                              !.localStream = NULL]
              ELSE s3
        s5 == IF s4.peerConnection # NULL
              THEN [s4 EXCEPT !.trackEnded[s4.peerConnection] = TRUE,
                              !.readyState[s4.peerConnection] = "closed"]
              ELSE s4
    IN  [s5 EXCEPT !.isSessionActive = FALSE,
                   !.dataChannel = NULL,
                   !.peerConnection = NULL]

stopSession(s) ==
    LET s1 == IF s.spaceKeyTimer
              THEN [s EXCEPT !.spaceKeyTimer = FALSE, !.autoStop = NoTimer]
              ELSE s
        s2 == [s1 EXCEPT !.isRecordingRef = FALSE, !.isRecording = FALSE]
        s3 == IF s2.dataChannel # NULL
              THEN [s2 EXCEPT !.readyState[s2.dataChannel] = "closed"]
              ELSE s2
        s4 == IF s3.localStream # NULL
              THEN [s3 EXCEPT !.trackEnded[s3.localStream] = TRUE,
                              !.localStream = NULL]
              ELSE s3
        s5 == IF s4.peerConnection # NULL
              THEN [s4 EXCEPT !.trackEnded[s4.peerConnection] = TRUE,
                              !.readyState[s4.peerConnection] = "closed"]
              ELSE s4
    IN  [s5 EXCEPT !.isSessionActive = FALSE,
                   !.dataChannel = NULL,
                   !.peerConnection = NULL]

StopSession ==
    /\ Sync("stopSession",
               [stopSession(S) EXCEPT
                   !.stopped = TRUE,
                   !.res = IF isRecordingRef THEN "interrupted"
                           ELSE "none"],
            TRUE, TRUE)
    /\ UNCHANGED inputs

\* togglePushToTalk with the two microphone branches swapped.
togglePushToTalk_MicFollowsMode(s) ==
    LET newMode == ~s.isPushToTalkEnabled
        s1 == [s EXCEPT !.isPushToTalkEnabled = newMode,
                        !.isRecordingRef = FALSE,
                        !.isRecording = FALSE]
        s2 == IF s1.spaceKeyTimer
              THEN [s1 EXCEPT !.spaceKeyTimer = FALSE, !.autoStop = NoTimer]
              ELSE s1
    IN  toggleMicrophone(s2, newMode)

togglePushToTalk(s) ==
    LET newMode == ~s.isPushToTalkEnabled
        s1 == [s EXCEPT !.isPushToTalkEnabled = newMode,
                        !.isRecordingRef = FALSE,
                        !.isRecording = FALSE]
        s2 == IF s1.spaceKeyTimer
              THEN [s1 EXCEPT !.spaceKeyTimer = FALSE, !.autoStop = NoTimer]
              ELSE s1
    IN  toggleMicrophone(s2, ~newMode)

\* The mode checkbox; it is disabled while the session is active (line 435).
TogglePushToTalk ==
    /\ inputs < MaxInputs
    /\ ~isSessionActive
    /\ Sync("togglePushToTalk", togglePushToTalk(S), FALSE, TRUE)
    /\ inputs' = inputs + 1

Min(a, b) == IF a < b THEN a ELSE b
Max(a, b) == IF a > b THEN a ELSE b

validateAndSetVadThreshold(s, value) ==
    [s EXCEPT !.vadThreshold =
         Max(vadThresholdMin, Min(vadThresholdMax, value))]

resetVadThreshold(s) == [s EXCEPT !.vadThreshold = vadThresholdDefault]

\* The slider and the preset buttons; disabled in push-to-talk mode
\* (lines 515, 542).
ValidateAndSetVadThreshold ==
    \E v \in ThresholdInputs :
       /\ inputs < MaxInputs
       /\ ~isPushToTalkEnabled
       /\ Sync("validateAndSetVadThreshold",
               validateAndSetVadThreshold(S, v), FALSE, TRUE)
       /\ inputs' = inputs + 1

\* The reset button; disabled in push-to-talk mode (line 480).
ResetVadThreshold ==
    /\ inputs < MaxInputs
    /\ ~isPushToTalkEnabled
    /\ Sync("resetVadThreshold", resetVadThreshold(S), FALSE, TRUE)
    /\ inputs' = inputs + 1

\* The resend button, rendered only while the session is active and
\* push-to-talk is off (lines 548-555).
ResendVadSettings ==
    /\ inputs < MaxInputs
    /\ isSessionActive /\ ~isPushToTalkEnabled
    /\ Sync("resendVadSettings",
            updateVADSettings(S, dataChannel, vadThreshold,
                              isPushToTalkEnabled),
            FALSE, FALSE)
    /\ inputs' = inputs + 1

\* sendTextMessage with its two sends in the other order.
sendTextMessage_ResponseFirst(s, dc, message) ==
    LET s1 == sendClientEvent(s, dc, ResponseCreate)
    IN  IF s1.threw THEN s1
        ELSE sendClientEvent(s1, dc, ItemCreate(message))

\* sendTextMessage whose sendClientEvent closed over dc.  A send that
\* throws ends the handler.
sendTextMessage(s, dc, message) ==
    LET s1 == sendClientEvent(s, dc, ItemCreate(message))
    IN  IF s1.threw THEN s1
        ELSE sendClientEvent(s1, dc, ResponseCreate)

\* sendClientEvent called through the props of SessionControls and
\* ToolPanel (lines 461, 560).
SendClientEvent ==
    \E message \in ClientEvents :
       /\ inputs < MaxInputs
       /\ Sync("sendClientEvent",
               sendClientEvent(S, dataChannel, message), FALSE, FALSE)
       /\ inputs' = inputs + 1

\* sendTextMessage called through the props of SessionControls and
\* ToolPanel (lines 462, 561).
SendTextMessage ==
    \E message \in Texts :
       /\ inputs < MaxInputs
       /\ Sync("sendTextMessage",
               sendTextMessage(S, dataChannel, message), FALSE, FALSE)
       /\ inputs' = inputs + 1

\* handleKeyDown that does not look at event.repeat.
handleKeyDown_IgnoresRepeat(s, code, repeat) ==
    IF code = "Space" /\ ~s.isRecordingRef
    THEN startRecording(s, s.isSessionActive, s.dataChannel)
    ELSE s

handleKeyDown(s, code, repeat) ==
    IF code = "Space" /\ ~repeat /\ ~s.isRecordingRef
    THEN startRecording(s, s.isSessionActive, s.dataChannel)
    ELSE s

handleKeyUp(s, code) ==
    IF code = "Space" /\ s.isRecordingRef
    THEN stopRecording(s, s.dataChannel)
    ELSE s

\* The keyboard effect attaches its handlers only in a render with
\* push-to-talk on and the session active, and to window and to document:
\* the browser calls the handler twice for one key event.  The handlers
\* attached are those of the render whose effects ran last.
KeyboardAttached(s) == s.isPushToTalkEnabled /\ s.isSessionActive

\* The name a key event is observed under: the plain name is a space key
\* that is no auto-repeat.
KeyEventName(name, code, repeat) ==
    IF code # "Space" THEN name \o "(other)"
    ELSE IF repeat THEN name \o "(repeat)"
    ELSE name

\* A key goes down while the handlers are attached.
KeyDown ==
    \E code \in KeyCodes, repeat \in BOOLEAN :
       /\ isRecordingRef \/ inputs < MaxInputs
       /\ KeyboardAttached(E)
       /\ Sync(KeyEventName("keyDown", code, repeat),
               At(handleKeyDown(handleKeyDown(E, code, repeat),
                                code, repeat), S),
               FALSE, FALSE)
       /\ inputs' = inputs + (IF isRecordingRef THEN 0 ELSE 1)

\* A key goes up while the handlers are attached.
KeyUp ==
    \E code \in KeyCodes :
       /\ KeyboardAttached(E)
       /\ LET s1 == At(handleKeyUp(handleKeyUp(E, code), code), S)
          IN  /\ isRecordingRef \/ inputs < MaxInputs
              /\ Sync(KeyEventName("keyUp", code, FALSE), s1, FALSE, FALSE)
              /\ inputs' = inputs + (IF isRecordingRef THEN 0 ELSE 1)

\* A key event while no handler is attached: no code of the component runs.
KeyUnheard ==
    \E code \in KeyCodes,
       e \in {<<"keyDown", FALSE>>, <<"keyDown", TRUE>>, <<"keyUp", FALSE>>} :
       /\ inputs < MaxInputs
       /\ ~KeyboardAttached(E)
       /\ Sync(KeyEventName(e[1], code, e[2]), S, FALSE, FALSE)
       /\ inputs' = inputs + 1

\* startRecording and stopRecording called through the props of
\* SessionControls (lines 467-468).
StartRecording ==
    /\ inputs < MaxInputs
    /\ Sync("startRecording",
            startRecording(S, isSessionActive, dataChannel), FALSE, FALSE)
    /\ inputs' = inputs + 1

StopRecording ==
    LET s1 == stopRecording(S, dataChannel)
    IN  /\ s1.res = "stopped" \/ inputs < MaxInputs
        /\ Sync("stopRecording", s1, FALSE, FALSE)
        /\ inputs' = inputs + (IF s1.res = "stopped" THEN 0 ELSE 1)

\* The auto-stop timer fires: the callback of lines 147-150 calls the
\* stopRecording that startRecording closed over.  The handle stays in
\* spaceKeyTimer until somebody clears it.
TimerExpiry ==
    /\ autoStop.pending
    /\ Step("timerExpiry",
            stopRecording([Q EXCEPT !.autoStop = NoTimer], autoStop.dc))
    /\ UNCHANGED inputs

\* The oldest 100 ms timeout of an "open" listener fires (lines 397-399).
VadTimerExpiry ==
    /\ vadTimers # <<>>
    /\ LET c == Head(vadTimers)
       IN  Step("vadTimerExpiry",
                updateVADSettings([Q EXCEPT !.vadTimers = Tail(@)],
                                  c.dc, c.threshold, c.ptt))
    /\ UNCHANGED inputs

\* React renders the updates of isSessionActive and dataChannel that are
\* waiting and commits the render.  Effects that still wait from the
\* render before run first; those of this render wait for Effects.
Render ==
    /\ pending # Rendered(S)
    /\ LET f == RunEffects(E, S)
       IN  /\ Apply([f EXCEPT !.isSessionActive = pending.isSessionActive,
                              !.dataChannel = pending.dataChannel])
           /\ last' = "render"
           /\ effected' = Rendered(S)
    /\ UNCHANGED <<pending, inputs>>

\* The effects of a render that no click or key event caused run, in a
\* task of their own after the commit.
Effects ==
    /\ effected # Rendered(S)
    /\ Apply(RunEffects(E, S))
    /\ last' = "effects"
    /\ effected' = Rendered(S)
    /\ UNCHANGED <<pending, inputs>>

Next ==
    \/ StartSession
    \/ MediaDone
    \/ NegotiationDone
    \/ DataChannelOpen
    \/ DataChannelMessage
    \/ DataChannelClose
    \/ StopSession
    \/ TogglePushToTalk
    \/ ValidateAndSetVadThreshold
    \/ ResetVadThreshold
    \/ ResendVadSettings
    \/ SendClientEvent
    \/ SendTextMessage
    \/ KeyDown
    \/ KeyUp
    \/ KeyUnheard
    \/ StartRecording
    \/ StopRecording
    \/ TimerExpiry
    \/ VadTimerExpiry
    \/ Render
    \/ Effects

Spec == Init /\ [][Next]_vars

\* The threshold controls alone, under every configuration of the three
\* environment variables and with the wider set of inputs.
WideThresholdInputs == {-20, 30, 70, 80, 95, 120, 200}

ValidateAndSetVadThresholdWide ==
    \E v \in WideThresholdInputs :
       /\ inputs < MaxInputs
       /\ ~isPushToTalkEnabled
       /\ Sync("validateAndSetVadThreshold",
               validateAndSetVadThreshold(S, v), FALSE, TRUE)
       /\ inputs' = inputs + 1

NextVad ==
    \/ ValidateAndSetVadThresholdWide
    \/ ResetVadThreshold
    \/ TogglePushToTalk

InitVad == InitWith(AllEnvs) /\ InitPerf({TRUE})

SpecVad == InitVad /\ [][NextVad]_vars

\* ------------------------------------------------- PerformanceMonitor
\* The monitor and the performance timeline as one record; res and threw
\* are what the call under way returns and whether it threw.
P == [metrics |-> metrics, startTime |-> startTime, marks |-> marks,
      vadMeasures |-> vadMeasures, stats |-> stats, res |-> Null,
      threw |-> FALSE]

ApplyPerf(op, p) ==
    /\ metrics' = p.metrics
    /\ startTime' = p.startTime
    /\ marks' = p.marks
    /\ vadMeasures' = p.vadMeasures
    /\ stats' = p.stats
    /\ pmRes' = p.res
    /\ pmThrew' = p.threw
    /\ pmLast' = op
    /\ calls' = calls + 1
    /\ UNCHANGED <<now, hasMemory>>
    /\ UNCHANGED appVars

\* What measureMemoryUsage reads from performance.memory, in megabytes.
MemoryInputs == {[used |-> 0, total |-> 8, limit |-> 16],
                 [used |-> 3, total |-> 8, limit |-> 16]}
\* The argument of startMemoryMonitoring, in milliseconds.
Intervals == {1, 2}
\* The argument of getAudioContextInfo: none, or a context, named by its
\* sample rate in kHz.
AudioContexts == {NULL, 48}

startAudioLatencyMeasurement(p, t) ==
    [p EXCEPT !.startTime = t, !.marks["audio-start"] = t]

\* performance.measure throws when the start mark does not exist.
endAudioLatencyMeasurement(p, t) ==
    IF p.startTime = NULL
    THEN p
    ELSE LET latency == t - p.startTime
             p1 == [p EXCEPT !.metrics.audioLatency = Append(@, latency),
                             !.marks["audio-end"] = t]
         IN  IF p1.marks["audio-start"] = NULL
             THEN [p1 EXCEPT !.threw = TRUE]
             ELSE [p1 EXCEPT !.res = Value(latency)]

measureMemoryUsage(p, host, memory) ==
    IF ~host
    THEN p
    ELSE [p EXCEPT !.metrics.memoryUsage = Append(@, memory),
                   !.res = Value(memory.used)]

\* The function monitor of startMemoryMonitoring: one sample, whose result
\* it drops.  The timeout it sets is in the action.
monitor(p, host, memory) ==
    [measureMemoryUsage(p, host, memory) EXCEPT !.res = Null]

getAudioContextInfo(p, audioContext) ==
    IF audioContext = NULL
    THEN p
    ELSE [p EXCEPT !.res = Value(audioContext)]

\* measureVADResponse up to its return; what it returns is a callback.
measureVADResponse(p, t) ==
    [p EXCEPT !.marks["vad-trigger"] = t, !.res = Value(0)]

\* The callback measureVADResponse returned.  getEntriesByName gives the
\* "vad-latency" measures oldest first, and the callback reads entry 0.
vadResponse(p, t) ==
    LET p1 == [p EXCEPT !.marks["vad-response"] = t]
    IN  IF p1.marks["vad-trigger"] = NULL
        THEN [p1 EXCEPT !.threw = TRUE]
        ELSE LET p2 == [p1 EXCEPT !.vadMeasures =
                            Append(@, t - p1.marks["vad-trigger"])]
                 latency == p2.vadMeasures[1]
             IN  [p2 EXCEPT !.metrics.vadResponseTime = Append(@, latency),
                            !.res = Value(latency)]

\* values.map(v => typeof v === 'number' ? v : v.used || 0): the entries
\* of memoryUsage are the objects, those of the other lists numbers.
Latencies(key, values) ==
    [k \in 1 .. Len(values) |->
        IF key = "memoryUsage" THEN values[k].used ELSE values[k]]

RECURSIVE Reduce(_, _)
\* latencies.reduce((a, b) => a + b, 0)
Reduce(latencies, a) ==
    IF latencies = <<>> THEN a
    ELSE Reduce(Tail(latencies), a + Head(latencies))

MathMin(latencies) ==
    CHOOSE v \in {latencies[k] : k \in 1 .. Len(latencies)} :
       \A k \in 1 .. Len(latencies) : v <= latencies[k]
MathMax(latencies) ==
    CHOOSE v \in {latencies[k] : k \in 1 .. Len(latencies)} :
       \A k \in 1 .. Len(latencies) : v >= latencies[k]

\* The entry of one metric with min taken to be the first value.
StatsOf_FirstAsMin(latencies) ==
    [count |-> Len(latencies),
     avg |-> [num |-> Reduce(latencies, 0), den |-> Len(latencies)],
     min |-> latencies[1],
     max |-> MathMax(latencies)]

\* The entry of one metric (lines 88-93).  avg is a quotient that is
\* seldom whole: it is kept as numerator and denominator.
StatsOf(latencies) ==
    [count |-> Len(latencies),
     avg |-> [num |-> Reduce(latencies, 0), den |-> Len(latencies)],
     min |-> MathMin(latencies),
     max |-> MathMax(latencies)]

getStatsSummary(p) ==
    LET summary == [key \in {k \in MetricKeys : p.metrics[k] # <<>>} |->
                       StatsOf(Latencies(key, p.metrics[key]))]
    IN  [p EXCEPT !.stats = summary, !.res = Value(0)]

\* clearMetrics leaves this.startTime as it is.
clearMetrics(p) ==
    [p EXCEPT !.metrics = NoMetrics, !.marks = NoMarks,
              !.vadMeasures = <<>>]

\* Time passes between two calls.
Tick ==
    /\ now < MaxNow
    /\ now' = now + 1
    /\ UNCHANGED <<metrics, startTime, marks, vadMeasures, hasMemory,
                   vadCallbacks, memoryTimers, pmLast, pmRes, pmThrew, stats,
                   windowOpen, calls>>
    /\ UNCHANGED appVars

StartAudioLatencyMeasurement ==
    /\ calls < MaxCalls
    /\ ApplyPerf("startAudioLatencyMeasurement",
                 startAudioLatencyMeasurement(P, now))
    /\ windowOpen' = TRUE
    /\ UNCHANGED <<vadCallbacks, memoryTimers>>

EndAudioLatencyMeasurement ==
    /\ calls < MaxCalls
    /\ ApplyPerf("endAudioLatencyMeasurement",
                 endAudioLatencyMeasurement(P, now))
    /\ windowOpen' = FALSE
    /\ UNCHANGED <<vadCallbacks, memoryTimers>>

MeasureMemoryUsage ==
    \E memory \in MemoryInputs :
       /\ calls < MaxCalls
       /\ ApplyPerf("measureMemoryUsage",
                    measureMemoryUsage(P, hasMemory, memory))
       /\ UNCHANGED <<windowOpen, vadCallbacks, memoryTimers>>

\* startMemoryMonitoring(intervalMs): monitor runs at once and sets the
\* timeout that runs it again.
StartMemoryMonitoring ==
    \E memory \in MemoryInputs, intervalMs \in Intervals :
       /\ calls < MaxCalls
       /\ ApplyPerf("startMemoryMonitoring", monitor(P, hasMemory, memory))
       /\ memoryTimers' = Append(memoryTimers,
                                 [due |-> now + intervalMs,
                                  intervalMs |-> intervalMs])
       /\ UNCHANGED <<windowOpen, vadCallbacks>>

\* A timeout of monitor that is due fires: monitor runs and sets its
\* timeout again.  Nothing ever clears it.
MemoryMonitorTimeout ==
    \E k \in 1 .. Len(memoryTimers), memory \in MemoryInputs :
       /\ calls < MaxCalls
       /\ memoryTimers[k].due <= now
       /\ ApplyPerf("monitor", monitor(P, hasMemory, memory))
       /\ memoryTimers' =
             Append(SubSeq(memoryTimers, 1, k - 1)
                       \o SubSeq(memoryTimers, k + 1, Len(memoryTimers)),
                    [due |-> now + memoryTimers[k].intervalMs,
                     intervalMs |-> memoryTimers[k].intervalMs])
       /\ UNCHANGED <<windowOpen, vadCallbacks>>

GetAudioContextInfo ==
    \E audioContext \in AudioContexts :
       /\ calls < MaxCalls
       /\ ApplyPerf(IF audioContext = NULL
                    THEN "getAudioContextInfo(null)"
                    ELSE "getAudioContextInfo",
                    getAudioContextInfo(P, audioContext))
       /\ UNCHANGED <<windowOpen, vadCallbacks, memoryTimers>>

MeasureVADResponse ==
    /\ calls < MaxCalls
    /\ ApplyPerf("measureVADResponse", measureVADResponse(P, now))
    /\ vadCallbacks' = vadCallbacks + 1
    /\ UNCHANGED <<windowOpen, memoryTimers>>

\* A callback that measureVADResponse returned is called, once.
VadResponse ==
    /\ vadCallbacks > 0
    /\ ApplyPerf("vadResponse", vadResponse(P, now))
    /\ vadCallbacks' = vadCallbacks - 1
    /\ UNCHANGED <<windowOpen, memoryTimers>>

GetStatsSummary ==
    /\ calls < MaxCalls
    /\ ApplyPerf("getStatsSummary", getStatsSummary(P))
    /\ UNCHANGED <<windowOpen, vadCallbacks, memoryTimers>>

ClearMetrics ==
    /\ calls < MaxCalls
    /\ ApplyPerf("clearMetrics", clearMetrics(P))
    /\ UNCHANGED <<windowOpen, vadCallbacks, memoryTimers>>

NextPerf ==
    \/ Tick
    \/ StartAudioLatencyMeasurement
    \/ EndAudioLatencyMeasurement
    \/ MeasureMemoryUsage
    \/ StartMemoryMonitoring
    \/ MemoryMonitorTimeout
    \/ GetAudioContextInfo
    \/ MeasureVADResponse
    \/ VadResponse
    \/ GetStatsSummary
    \/ ClearMetrics

\* The monitor on hosts with and without performance.memory.
InitMonitor == InitWith(MainEnvs) /\ InitPerf(BOOLEAN)

SpecPerf == InitMonitor /\ [][NextPerf]_vars

\* ------------------------------------------------------------- claims
\* The recording flag, in the state and in the ref.
Recording == isRecording \/ isRecordingRef

\* C1: in every reachable state the recording flag is true only if the
\* session is active and push-to-talk mode is enabled.
C1_RecordingOnlyInActivePushToTalk ==
    Recording => (isSessionActive /\ isPushToTalkEnabled)

\* What the claims call the microphone enabled flag: the enabled flag of the
\* track of localStream.current, where there is one.
MicFlags == <<localStream, trackEnabled>>
TimerState == <<spaceKeyTimer, autoStop>>
RecordingFlags == <<isRecording, isRecordingRef>>

\* The guard of startRecording, on the state it is called in.
CanStartRecording ==
    isSessionActive /\ dataChannel # NULL /\ ~isRecordingRef

\* C2: Idle -> Recording happens only with the session active, a data
\* channel present and no recording in progress; a startRecording called
\* when one of the three fails leaves the recording flag, the microphone
\* flag, the auto-stop timer and the event log as they were.
C2_StartRecordingGuarded ==
    [][/\ (~Recording /\ Recording') => CanStartRecording
       /\ (last' \in {"startRecording", "keyDown"} /\ ~CanStartRecording)
             => UNCHANGED <<RecordingFlags, MicFlags, TimerState, events>>
       /\ (last' = "startRecording" /\ CanStartRecording)
             => (isRecordingRef' /\ isRecording' /\ res' = "started")
      ]_vars

\* A startRecording was turned down although the session is active.
C2_Witness ==
    /\ last = "startRecording" /\ res = "rejected"
    /\ isSessionActive

\* The messages of type ty the last step put on a data channel.
Emitted(ty) == SelectSeq(out, LAMBDA m : m.msg.type = ty)

\* C3 as stated: a recording ended by key-up or by the auto-stop timer sends
\* exactly one "response.create" and disables the microphone in that step,
\* and stopRecording never sends more "response.create" than recordings
\* were started.
C3_OneResponsePerRecording ==
    [][/\ (last' \in {"keyUp", "timerExpiry"} /\ Recording /\ ~Recording')
             => /\ Len(Emitted("response.create")') = 1
                /\ localStream' # NULL => ~trackEnabled'[localStream']
       /\ nRespCreate' <= nStartRec'
      ]_vars

\* C4 as stated, in the form a finite run decides: a recording that has
\* started returns to Idle without any key-up because the auto-stop timer
\* that startRecording armed is still pending for as long as the recording
\* lasts (a pending timer does fire, and its callback is stopRecording).
C4_RecordingHasTimer == isRecordingRef => autoStop.pending

\* C5 as stated: a "session.update" is put on a data channel only when that
\* channel is open and push-to-talk is off at that moment.
C5_VadOnlyWhenContinuous ==
    [][\A k \in 1 .. Len(out') :
          out'[k].msg.type = "session.update"
             => /\ readyState'[out'[k].dc] = "open"
                /\ ~isPushToTalkEnabled'
      ]_vars

\* C6 as stated: the stored threshold lies within the configured bounds.
C6_ThresholdWithinBounds ==
    vadThresholdMin <= vadThreshold /\ vadThreshold <= vadThresholdMax

\* C7: stopRecording called while not recording sends nothing and leaves
\* the event log, the microphone flag, the timer handle and the recording
\* flag (false) as they were.
C7_StopWhenIdleIsNoop ==
    [][(last' \in {"stopRecording", "timerExpiry"} /\ ~isRecordingRef)
          => /\ out' = <<>>
             /\ ~isRecordingRef' /\ ~isRecording'
             /\ UNCHANGED <<events, MicFlags, spaceKeyTimer>>
             /\ last' = "stopRecording" => UNCHANGED autoStop
      ]_vars

\* stopRecording has been called while nothing was being recorded.
C7_Witness == last = "stopRecording" /\ res = "noop" /\ isSessionActive

\* C9 as stated: an auto-stop timer is pending exactly while recording, and
\* the timer never fires in the Idle state.
C9_TimerIffRecording ==
    [][/\ autoStop'.pending <=> isRecordingRef'
       /\ last' = "timerExpiry" => isRecordingRef
      ]_vars

\* C8: every togglePushToTalk flips the mode, leaves the recording flag
\* false and no auto-stop timer pending, sends no "response.create", and
\* sets the enabled flag of the microphone track to the complement of the
\* new mode (with no local stream there is no track, and no flag changes).
C8_ToggleResets ==
    [][last' = "togglePushToTalk"
          => /\ isPushToTalkEnabled' = ~isPushToTalkEnabled
             /\ ~isRecordingRef' /\ ~isRecording'
             /\ ~spaceKeyTimer' /\ ~autoStop'.pending
             /\ Emitted("response.create")' = <<>>
             /\ nRespCreate' = nRespCreate
             /\ localStream' = localStream
             /\ IF localStream # NULL
                THEN trackEnabled'[localStream] = ~isPushToTalkEnabled'
                ELSE trackEnabled' = trackEnabled
      ]_vars

\* The mode was toggled while startSession held a microphone track.
C8_Witness ==
    /\ last = "togglePushToTalk"
    /\ localStream # NULL
    /\ isPushToTalkEnabled /\ ~trackEnabled[localStream]

\* The last step put a "session.update" carrying threshold v on a channel.
SentVad(v) == \E k \in 1 .. Len(out) : out[k].msg = VadEvent(v)

\* A 100 ms dispatch is pending that will send threshold v.
VadScheduled(v) ==
    \E k \in 1 .. Len(vadTimers) :
       /\ vadTimers[k].threshold = v
       /\ ~vadTimers[k].ptt
       /\ readyState[vadTimers[k].dc] = "open"

\* The stored threshold changes in this step, with the session active,
\* push-to-talk off and the component's data channel open.
ThresholdChangesInOpenSession ==
    /\ vadThreshold' # vadThreshold
    /\ isSessionActive /\ ~isPushToTalkEnabled
    /\ dataChannel # NULL /\ readyState[dataChannel] = "open"

\* C10 as stated: every opening of a data channel, and every change of the
\* stored threshold while the session is active, the channel open and
\* push-to-talk off, is followed by a "session.update" carrying the stored
\* threshold: it is sent in that step, or the 100 ms dispatch that will
\* send it is pending.
C10_VadSentOnOpenAndChange ==
    [][/\ ThresholdChangesInOpenSession => SentVad(vadThreshold)'
       /\ last' = "open"
             => (SentVad(vadThreshold) \/ VadScheduled(vadThreshold))'
      ]_vars

\* The threshold half of C10 alone: a change of the stored threshold with
\* the session active, the channel open and push-to-talk off is sent in
\* that step.
ThresholdChangeIsSent ==
    [][ThresholdChangesInOpenSession => SentVad(vadThreshold)']_vars

\* The "session.update" messages the last step put on a data channel.
VadMessages == Emitted("session.update")

\* C11: in every dispatched VAD configuration message silence_duration_ms is
\* 1000 if and only if the threshold of that message is above 0.7, and 500
\* otherwise, at exactly 0.7 in particular.
C11_SilenceDurationFollowsThreshold ==
    \A k \in 1 .. Len(VadMessages) :
       LET m == VadMessages[k].msg
       IN  /\ m.silence_duration_ms = 1000 <=> m.threshold > 70
           /\ m.silence_duration_ms = 500 <=> m.threshold <= 70

\* A dispatch at exactly 0.7 and a dispatch above it have both happened.
C11_Witness ==
    /\ \E k \in 1 .. Len(VadMessages) :
          /\ VadMessages[k].msg.threshold = 70
          /\ VadMessages[k].msg.silence_duration_ms = 500
    /\ Len(events) >= 2
    /\ events[2].type = "session.update"
    /\ events[2].threshold > 70
    /\ events[2].silence_duration_ms = 1000

Reverse(q) == [k \in 1 .. Len(q) |-> q[Len(q) + 1 - k]]

\* The messages the last step put on a data channel, in the order sent.
SentMessages == [k \in 1 .. Len(out) |-> out[k].msg]

\* The log a step starts from: the opening of a data channel empties it.
\* To be read in a step.
LogBase == IF last' = "open" THEN <<>> ELSE events

\* The records a step puts in front of the log.
LogInserted == SubSeq(events', 1, Len(events') - Len(LogBase))

\* C12 as stated: a step puts the messages it sent, latest first, or the
\* message it received, in front of the log and leaves the rest as it was;
\* the opening of a data channel empties the log; and every record a step
\* adds belongs to the session whose data channel opened last, so that the
\* log holds no record of an earlier session after that opening.
C12_LogNewestFirstAndPerSession ==
    [][/\ Len(events') >= Len(LogBase)
       /\ events' = LogInserted \o LogBase
       /\ IF last' = "message"
          THEN /\ LogInserted # <<>>
               /\ \A k \in 1 .. Len(LogInserted) :
                     /\ LogInserted[k].type = "server.event"
                     /\ LogInserted[k].n = inputs'
                     /\ LogInserted[k].dc = lastOpened'
          ELSE /\ LogInserted = Reverse(SentMessages')
               /\ \A k \in 1 .. Len(out') : out'[k].dc = lastOpened'
      ]_vars

\* The ordering part of C12 alone, for the messages the component sends:
\* a step puts them in front of the log, latest first.
LogNewestFirst ==
    [][last' \notin {"open", "message"}
          => events' = Reverse(SentMessages') \o events
      ]_vars

\* No data channel exists that is connecting or open: whichever channel a
\* sendClientEvent closed over is absent or closed.
NoUsableChannel == \A i \in Sessions : readyState[i] \in {"none", "closed"}

\* C13 as stated: while every data channel is absent or closed, a step
\* sends nothing, no send throws and the event log stays as it was.
C13_SendOnUnusableChannelIsQuiet ==
    [][(NoUsableChannel /\ NoUsableChannel')
          => (~threw' /\ out' = <<>> /\ events' = events)
      ]_vars

\* C14 as stated: endAudioLatencyMeasurement with no latency window open
\* (no start since construction or since the previous end),
\* measureMemoryUsage on a host without performance.memory and
\* getAudioContextInfo without an audio context return null and leave every
\* metric list as it was.
C14_MissingPrerequisiteReturnsNull ==
    [][(/\ calls' # calls
        /\ \/ pmLast' = "endAudioLatencyMeasurement" /\ ~windowOpen
           \/ pmLast' = "measureMemoryUsage" /\ ~hasMemory
           \/ pmLast' = "getAudioContextInfo(null)")
          => (pmRes'.null /\ ~pmThrew' /\ metrics' = metrics)
      ]_perfVars

RECURSIVE SumFrom(_, _)
\* The sum of the first n values of a list, from the last one down.
SumFrom(values, n) ==
    IF n = 0 THEN 0 ELSE values[n] + SumFrom(values, n - 1)

\* What the claim calls the recorded values of a metric: the numbers of the
\* list, and for memoryUsage the used size of each sample.
Recorded(key) ==
    [k \in 1 .. Len(metrics[key]) |->
        IF key = "memoryUsage" THEN metrics[key][k].used
        ELSE metrics[key][k]]

\* C15: the summary getStatsSummary returns has, for every metric with a
\* recorded value, the number of values as count, the smallest and the
\* largest as min and max and their sum over count as avg, so that
\* min <= avg <= max; a metric without values is not in the summary.
C15_SummaryMatchesRecordedValues ==
    pmLast = "getStatsSummary"
       => \A key \in MetricKeys :
             LET v == Recorded(key)
                 n == Len(v)
             IN  IF n = 0
                 THEN key \notin DOMAIN stats
                 ELSE /\ key \in DOMAIN stats
                      /\ stats[key].count = n
                      /\ \A k \in 1 .. n : /\ stats[key].min <= v[k]
                                            /\ stats[key].max >= v[k]
                      /\ \E k \in 1 .. n : stats[key].min = v[k]
                      /\ \E k \in 1 .. n : stats[key].max = v[k]
                      /\ stats[key].avg.num = SumFrom(v, n)
                      /\ stats[key].avg.den = n
                      /\ stats[key].min * n <= stats[key].avg.num
                      /\ stats[key].avg.num <= stats[key].max * n

\* A summary of two different latencies, the second the smaller, while the
\* other lists are empty.
C15_Witness ==
    /\ pmLast = "getStatsSummary"
    /\ Len(metrics.audioLatency) = 2
    /\ DOMAIN stats = {"audioLatency"}
    /\ stats["audioLatency"].min > stats["audioLatency"].max - 2
    /\ stats["audioLatency"].min < stats["audioLatency"].max
    /\ metrics.audioLatency[1] > metrics.audioLatency[2]

\* C16 as stated: where the component holds a microphone track, the track
\* is enabled while recording, and disabled while the session is active in
\* push-to-talk mode and nothing is being recorded.
C16_MicFollowsRecording ==
    localStream # NULL
       => /\ Recording => trackEnabled[localStream]
          /\ (isSessionActive /\ isPushToTalkEnabled /\ ~Recording)
                => ~trackEnabled[localStream]

\* C17 as stated: an inbound message adds exactly one record to the event
\* log, however often the threshold or the mode changed before it arrived.
C17_InboundRecordedOnce ==
    [][last' = "message"
          => /\ Len(events') = Len(events) + 1
             /\ Head(events').type = "server.event"
             /\ Tail(events') = events
      ]_vars

\* The "session.update" records of the log, latest first.
LoggedVad == SelectSeq(events, LAMBDA m : m.type = "session.update")

\* C18 as stated: with the session active, push-to-talk off, the data
\* channel open and no delayed dispatch pending, the "session.update" sent
\* last carries the stored threshold.
C18_LastDispatchIsCurrent ==
    (/\ isSessionActive /\ ~isPushToTalkEnabled
     /\ dataChannel # NULL /\ readyState[dataChannel] = "open"
     /\ vadTimers = <<>>
     /\ LoggedVad # <<>>)
       => Head(LoggedVad).threshold = vadThreshold

\* C19 as stated: from a stopSession until the next invocation of
\* startSession the session is inactive and the component holds neither a
\* data channel nor a microphone stream.
C19_StoppedStaysStopped ==
    stopped => (~isSessionActive /\ dataChannel = NULL /\ localStream = NULL)

\* C20: stopSession, in whatever state it is called, leaves the session
\* inactive, no data channel, no peer connection and no local stream held,
\* the channel it held closed and the tracks it held stopped, the recording
\* flag false and no auto-stop timer pending, and it sends nothing, no
\* "response.create" in particular, even when it interrupts a recording.
C20_StopSessionReleasesEverything ==
    [][last' = "stopSession"
          => /\ ~isSessionActive'
             /\ dataChannel' = NULL
             /\ peerConnection' = NULL
             /\ localStream' = NULL
             /\ dataChannel # NULL => readyState'[dataChannel] = "closed"
             /\ localStream # NULL => trackEnded'[localStream]
             /\ peerConnection # NULL
                   => /\ trackEnded'[peerConnection]
                      /\ readyState'[peerConnection] = "closed"
             /\ ~isRecording' /\ ~isRecordingRef'
             /\ ~spaceKeyTimer' /\ ~autoStop'.pending
             /\ out' = <<>> /\ ~threw'
             /\ nRespCreate' = nRespCreate
             /\ events' = events
      ]_vars

\* stopSession has interrupted a recording.
C20_Witness ==
    /\ last = "stopSession" /\ res = "interrupted"
    /\ nStartRec > nRespCreate

KeyEvents == {"keyDown", "keyDown(repeat)", "keyDown(other)",
              "keyUp", "keyUp(other)"}

\* C21: a key event changes the recording flag only with push-to-talk on,
\* the session active and the space key; an auto-repeated key-down, any
\* other key, a space key-down while recording, a space key-up while not
\* recording and any key event with push-to-talk off or the session
\* inactive leave the recording flag, the microphone flag, the timer and
\* the event log as they were and send nothing.
C21_KeyboardOnlySpaceInPushToTalk ==
    [][/\ (\/ last' \in {"keyDown(repeat)", "keyDown(other)",
                          "keyUp(other)"}
           \/ last' = "keyDown" /\ isRecordingRef
           \/ last' = "keyUp" /\ ~isRecordingRef
           \/ /\ last' \in KeyEvents
              /\ ~isPushToTalkEnabled \/ ~isSessionActive)
             => /\ UNCHANGED <<RecordingFlags, MicFlags, TimerState,
                               events>>
                /\ out' = <<>> /\ ~threw'
       /\ (last' \in KeyEvents /\ RecordingFlags' # RecordingFlags)
             => /\ isPushToTalkEnabled /\ isSessionActive
                /\ last' \in {"keyDown", "keyUp"}
      ]_vars

\* A space key-down that is no auto-repeat reached the handlers of an
\* active push-to-talk session while a recording was in progress, and the
\* recording goes on with its timer.
C21_Witness ==
    /\ last = "keyDown" /\ res = "none"
    /\ KeyboardAttached(E)
    /\ isSessionActive /\ isPushToTalkEnabled
    /\ dataChannel # NULL /\ readyState[dataChannel] = "open"
    /\ isRecordingRef /\ isRecording /\ autoStop.pending

\* The other cases of C21 with the handlers attached: the key-up of
\* another key while recording, an auto-repeated space key-down and a
\* space key-up with nothing being recorded.
C21_OtherKeyUpWhileRecording ==
    /\ last = "keyUp(other)"
    /\ KeyboardAttached(E)
    /\ isRecordingRef /\ isRecording /\ autoStop.pending

C21_RepeatWhileIdle ==
    /\ last = "keyDown(repeat)"
    /\ KeyboardAttached(E)
    /\ ~isRecordingRef /\ ~isRecording /\ ~autoStop.pending

C21_SpaceKeyUpWhileIdle ==
    /\ last = "keyUp" /\ res = "none"
    /\ KeyboardAttached(E)
    /\ ~isRecordingRef /\ ~isRecording /\ ~autoStop.pending

\* The last step sent the two messages of a text message on channel dc and
\* put them in front of the log, "response.create" at the head.
TextMessageSent(dc) ==
    \E message \in Texts :
       /\ out' = <<[dc |-> dc, msg |-> ItemCreate(message)],
                   [dc |-> dc, msg |-> ResponseCreate]>>
       /\ events' = <<ResponseCreate, ItemCreate(message)>> \o events
       /\ ~threw'

\* C22 as stated: sendTextMessage called while the component holds a data
\* channel sends a "conversation.item.create" with the text and then a
\* "response.create", nothing else, and logs both, the second at the head.
C22_TextMessageIsTwoMessages ==
    [][(last' = "sendTextMessage" /\ dataChannel # NULL)
          => TextMessageSent(dataChannel)
      ]_vars

\* The same on a data channel that is open, for what the handler itself
\* sends: the two messages come first in the step and are logged in that
\* order; effects that waited for a render may send after them.
TextMessageOnOpenChannel ==
    [][(/\ last' = "sendTextMessage"
        /\ dataChannel # NULL /\ readyState[dataChannel] = "open")
          => \E message \in Texts :
                LET k == Len(events') - Len(events)
                IN  /\ ~threw'
                    /\ Len(out') >= 2 /\ k >= 2
                    /\ out'[1] = [dc |-> dataChannel,
                                  msg |-> ItemCreate(message)]
                    /\ out'[2] = [dc |-> dataChannel, msg |-> ResponseCreate]
                    /\ events'[k] = ItemCreate(message)
                    /\ events'[k - 1] = ResponseCreate
                    /\ SubSeq(events', k + 1, Len(events')) = events
      ]_vars

\* C23 as stated, for a measurement that is the only one under way: the
\* callback returns, and appends to vadResponseTime, the time from the
\* trigger mark of its measurement to its own response mark.
C23_VadResponseMeasuresOwnWindow ==
    [][(/\ calls' # calls /\ pmLast' = "vadResponse"
        /\ vadCallbacks = 1
        /\ marks["vad-trigger"] # NULL)
          => /\ ~pmThrew' /\ ~pmRes'.null
             /\ pmRes'.value = now - marks["vad-trigger"]
             /\ metrics'.vadResponseTime =
                   Append(metrics.vadResponseTime,
                          now - marks["vad-trigger"])
      ]_perfVars
====
